---- MODULE Spec2Model ----
(***************************************************************************)
(* BitBoard (chess_engine/src/board/bitboard.rs): a wrapped u64 whose bit  *)
(* i (LSB = 0) says whether square i is occupied.                          *)
(*                                                                         *)
(* A u64 is represented by the set of the positions of its 1 bits, a       *)
(* subset of 0..63, so that all 64 bits keep their width.  The bit         *)
(* operators of the source (&, |, ^, <<, - 1, trailing_zeros) are defined  *)
(* on that representation bit by bit.                                      *)
(***************************************************************************)
EXTENDS Integers, Sequences, FiniteSets, TLC

VARIABLES
    bb,         \* the BitBoard's u64, self.0
    op,         \* the method called last
    arg,        \* its index argument (0 when it takes none)
    rhs,        \* the right operand of the last bitand
    ret,        \* what the last call returned
    pre,        \* self.0 when the last call began
    trap,       \* the arithmetic overflows the last call ran into
    iters,      \* iterations of the count_bits loop in the last call
    start,      \* self.0 when the current run of consecutive pop_bit calls began
    drained,    \* the indices that run has returned so far, in order
    out,        \* what the last fmt call got written to its destination
    wfailed     \* the numbers of the writes of the last fmt call that failed

vars == <<bb, op, arg, rhs, ret, pre, trap, iters, start, drained, out, wfailed>>

--------------------------------------------------------------------------
(* Bounds of the model *)

\* how many entries of IndexPool are used as index arguments
NumIdx == 5
\* how many entries of RawPool are used as raw values
NumRaw == 5

--------------------------------------------------------------------------
(* u64 and u8 arithmetic *)

U64Bits == 64
U8Max == 255

Squares == 0..(U64Bits - 1)

\* the bits of byte number k (0 = least significant) of a u64
byte_bits(byte, k) == {8 * k + j : j \in {n \in 0..7 : (byte \div (2 ^ n)) % 2 = 1}}

\* a u64 literal, given by its bytes as the source writes them (most significant first)
U64(bytes) == UNION {byte_bits(bytes[8 - k], k) : k \in 0..7}

And(a, b) == a \cap b
Or(a, b) == a \cup b
Xor(a, b) == (a \ b) \cup (b \ a)

\* 1 << n on a u64: the shift amount wraps at 64 when overflow checks are off
Shl1(n) == {n % U64Bits}
\* ... and overflows (panics under overflow checks) when n >= 64
ShlTrap(n) == IF n >= U64Bits THEN {"shl_overflow"} ELSE {}

\* b - 1 on a u64: the borrow enters at bit 0 and passes every 0 bit up to and
\* including the lowest 1 bit; each bit it reaches flips.  0 - 1 wraps to all ones
Sub1(b) == Xor(b, {i \in Squares : And(b, 0..(i - 1)) = {}})
SubTrap(b) == IF b = {} THEN {"sub_overflow"} ELSE {}

\* count + 1 on a u8
AddU8(count) == (count + 1) % (U8Max + 1)
AddTrap(count) == IF count + 1 > U8Max THEN {"add_overflow"} ELSE {}

\* u64::trailing_zeros: the number of 0 bits below the lowest 1 bit, 64 for 0
\* a wrong scan: the position of the highest 1 bit
leading_position(b) == IF b = {} THEN U64Bits ELSE CHOOSE i \in b : \A j \in b : j <= i

trailing_zeros(b) == Cardinality({i \in Squares : And(b, 0..i) = {}})

--------------------------------------------------------------------------
(* Return values *)

Ok(v) == [tag |-> "Ok", val |-> v]
Err(kind, index) == [tag |-> kind, val |-> index]
Some(v) == [tag |-> "Some", val |-> v]
None == [tag |-> "None", val |-> U64Bits]
Plain(type, v) == [tag |-> type, val |-> v]
Panic == [tag |-> "Panic", val |-> 0]

\* the outcome of a method: the new self.0, the value returned, the overflows hit
Res(self, r, t) == [self |-> self, ret |-> r, trap |-> t]

--------------------------------------------------------------------------
(* impl BitBoard *)

\* a wrong step: shifts the lowest bit out instead of clearing the lowest 1 bit
shift_right(b) == {i - 1 : i \in b \ {0}}

\* b &= b - 1
clear_lowest(b) == And(b, Sub1(b))

\* the while loop of count_bits; its locals, with the iterations made and the
\* overflows hit, are one record
RECURSIVE count_loop(_)
count_loop(l) ==
    IF l.b # {}
    THEN count_loop([b |-> clear_lowest(l.b),
                     count |-> AddU8(l.count),
                     iters |-> l.iters + 1,
                     trap |-> l.trap \cup AddTrap(l.count) \cup SubTrap(l.b)])
    ELSE l

count_bits(self) ==
    LET l == count_loop([b |-> self, count |-> 0, iters |-> 0, trap |-> {}])
    IN  [self |-> self, ret |-> Plain("u8", l.count), trap |-> l.trap, iters |-> l.iters]

\* a wrong pop_bit: the mask is or-ed in, so the bit stays set
pop_bit_keep(self) ==
    LET lsb_index == trailing_zeros(self)
    IN  IF lsb_index = 64 THEN Res(self, None, {})
        ELSE LET mask == Shl1(lsb_index)
             IN  Res(Or(self, mask), Some(lsb_index), ShlTrap(lsb_index))

pop_bit(self) ==
    LET lsb_index == trailing_zeros(self)
    IN  IF lsb_index = 64 THEN Res(self, None, {})
        ELSE LET mask == Shl1(lsb_index)
             IN  Res(Xor(self, mask), Some(lsb_index), ShlTrap(lsb_index))

\* a wrong check_bit: the bound is off by one
check_bit_off_by_one(self, index) ==
    IF ~(index > 64)
    THEN Res(self, Ok(And(self, Shl1(index)) # {}), ShlTrap(index))
    ELSE Res(self, Err("BitBoardCheckBitInvalidIndex", index), {})

check_bit(self, index) ==
    IF ~(index > 63)
    THEN Res(self, Ok(And(self, Shl1(index)) # {}), ShlTrap(index))
    ELSE Res(self, Err("BitBoardCheckBitInvalidIndex", index), {})

\* a wrong set_bit: the bound is off by one
set_bit_off_by_one(self, index) ==
    IF ~(index > 64)
    THEN LET new == Or(self, Shl1(index)) IN Res(new, Ok(new), ShlTrap(index))
    ELSE Res(self, Err("BitBoardSetBitInvalidIndex", index), {})

\* a wrong set_bit: toggles the bit
set_bit_toggle(self, index) ==
    IF ~(index > 63)
    THEN LET new == Xor(self, Shl1(index)) IN Res(new, Ok(new), ShlTrap(index))
    ELSE Res(self, Err("BitBoardSetBitInvalidIndex", index), {})

set_bit(self, index) ==
    IF ~(index > 63)
    THEN LET new == Or(self, Shl1(index)) IN Res(new, Ok(new), ShlTrap(index))
    ELSE Res(self, Err("BitBoardSetBitInvalidIndex", index), {})

\* a wrong unset_bit: toggles the bit without looking at it
unset_bit_toggle(self, index) ==
    IF ~(index > 63)
    THEN LET new == Xor(self, Shl1(index)) IN Res(new, Ok(new), ShlTrap(index))
    ELSE Res(self, Err("BitBoardUnsetBitInvalidIndex", index), {})

unset_bit(self, index) ==
    IF ~(index > 63)
    THEN LET c == check_bit(self, index)
         IN  IF c.ret.tag = "Ok" /\ c.ret.val = TRUE
             THEN LET new == Xor(self, Shl1(index))
                  IN  Res(new, Ok(new), c.trap \cup ShlTrap(index))
             ELSE Res(self, Err("BitBoardUnsetNonSetBit", index), c.trap)
    ELSE Res(self, Err("BitBoardUnsetBitInvalidIndex", index), {})

--------------------------------------------------------------------------
(* impl From<u64>, Into<u64>, BitAnd *)

from(value) == Res(value, Plain("BitBoard", value), {})

into(self) == Res(self, Plain("u64", self), {})

\* a wrong bitand: the union
bitand_or(self, other) == Res(self, Plain("BitBoard", Or(self, other)), {})

bitand(self, other) == Res(self, Plain("BitBoard", And(self, other)), {})

--------------------------------------------------------------------------
(* Collaborators of fmt that live in crate::util and crate::squares *)

\* Rank::iter() and File::iter(): the ranks 1..8 and the files A..H as 0..7, in order
RankIter == <<0, 1, 2, 3, 4, 5, 6, 7>>
FileIter == <<0, 1, 2, 3, 4, 5, 6, 7>>

\* Square64::from_file_and_rank(file, rank) as u8: A1 = 0, ..., H8 = 63
from_file_and_rank(file, rank) == rank * 8 + file

--------------------------------------------------------------------------
(* impl fmt::Display *)

\* the destinations tried: the numbers of the writes each one fails
NumWrites == Len(RankIter) * (Len(FileIter) + 1) + 1
WriterFailures == {{}, {9}, {NumWrites}}

Formatter == [buf |-> <<>>, n |-> 0, failed |-> {}, res |-> "Ok", trap |-> {}, expect |-> TRUE]

\* write!(f, s) to a destination that fails the writes numbered in fails
write(f, s, fails) ==
    LET k == f.n + 1
    IN  IF k \in fails
        THEN [f EXCEPT !.n = k, !.failed = @ \cup {k}, !.res = "Err"]
        ELSE [f EXCEPT !.n = k, !.buf = @ \o s, !.res = "Ok"]

\* a wrong glyph: the characters are swapped
glyph_swapped(bit) == IF bit THEN <<"0">> ELSE <<"1">>

\* the character written for a square
glyph(bit) == IF bit THEN <<"1">> ELSE <<"0">>

\* the body of the inner loop: one square; a failed expect panics and ends fmt
square(f, self, file, rank, fails) ==
    LET square_64 == from_file_and_rank(file, rank)
        c == check_bit(self, square_64)
    IN  IF c.ret.tag = "Ok"
        THEN [write(f, glyph(c.ret.val), fails) EXCEPT !.trap = @ \cup c.trap]
        ELSE [f EXCEPT !.expect = FALSE]

RECURSIVE file_loop(_, _, _, _, _)
file_loop(f, self, files, rank, fails) ==
    IF files = <<>> \/ ~f.expect THEN f
    ELSE file_loop(square(f, self, Head(files), rank, fails), self, Tail(files), rank, fails)

RECURSIVE rank_loop(_, _, _, _)
rank_loop(f, self, ranks, fails) ==
    IF ranks = <<>> \/ ~f.expect THEN f
    ELSE rank_loop(write(file_loop(f, self, FileIter, Head(ranks), fails), <<"\n">>, fails),
                   self, Tail(ranks), fails)

\* fmt returns the result of its last write, write!(f, ""), alone
fmt(self, fails) ==
    LET f == write(rank_loop(Formatter, self, RankIter, fails), <<>>, fails)
    IN  [self |-> self,
         ret |-> IF ~f.expect THEN Panic
                 ELSE IF f.res = "Ok" THEN Ok(<<>>) ELSE Err("fmt::Error", <<>>),
         trap |-> f.trap, buf |-> f.buf, failed |-> f.failed]

--------------------------------------------------------------------------
(* Inputs *)

Min(a, b) == IF a < b THEN a ELSE b

\* index arguments (u8): on the board, its corners, just past it, the largest u8
IndexPool == <<8, 0, 63, 64, 255, 36, 65, 128>>
Indices == {IndexPool[k] : k \in 1..Min(NumIdx, Len(IndexPool))}

\* raw u64 values: those of the tests
RawPool == <<
    U64(<<\h00, \h00, \h00, \h00, \h00, \h00, \h00, \h00>>),
    U64(<<\h00, \h00, \h00, \h00, \h00, \h00, \hFF, \h00>>),
    U64(<<\h0C, \h0F, \h00, \hD0, \h00, \h00, \h01, \h00>>),
    U64(<<\h80, \h00, \h00, \h00, \h00, \h00, \h00, \h00>>),
    U64(<<\h00, \h00, \h00, \h00, \h00, \h00, \h01, \h00>>),
    U64(<<\h00, \hF0, \h00, \h00, \h00, \h00, \h00, \h00>>),
    U64(<<\h00, \h0F, \h00, \h00, \h00, \h00, \h00, \h00>>) >>
RawValues == {RawPool[k] : k \in 1..Min(NumRaw, Len(RawPool))}

\* u64::MAX, every square occupied
AllOnes == U64(<<\hFF, \hFF, \hFF, \hFF, \hFF, \hFF, \hFF, \hFF>>)

--------------------------------------------------------------------------
(* The state machine: one BitBoard and the calls made on it *)

\* a BitBoard constructed from a raw value of the set given
New(values) ==
    /\ bb \in values
    /\ op = "new" /\ arg = 0 /\ rhs = {}
    /\ ret = Plain("BitBoard", bb)
    /\ pre = bb
    /\ trap = {} /\ iters = 0
    /\ start = bb /\ drained = <<>>
    /\ out = <<>> /\ wfailed = {}

Init == New(RawValues)

\* a panic ends the program
Running == ret.tag # "Panic"

\* what every call does.  An arithmetic overflow panics in a build with overflow
\* checks, leaving self as it was, and wraps in a build without them: either
\* outcome can be the program's
Call(name, index, other, r) ==
    /\ Running
    /\ op' = name /\ arg' = index /\ rhs' = other /\ pre' = bb
    /\ trap' = r.trap
    /\ \/ r.trap # {} /\ bb' = bb /\ ret' = Panic
       \/ bb' = r.self /\ ret' = r.ret

\* the call is not a pop_bit: a new run of pops begins after it
NoPop == start' = bb' /\ drained' = <<>>
\* the call is not a fmt: nothing is written
NoFmt == out' = <<>> /\ wfailed' = {}

CountBits ==
    LET r == count_bits(bb)
    IN  Call("count_bits", 0, {}, r) /\ iters' = r.iters /\ NoPop /\ NoFmt

PopBit ==
    /\ Call("pop_bit", 0, {}, pop_bit(bb))
    /\ drained' = IF ret'.tag = "Some" THEN Append(drained, ret'.val) ELSE drained
    /\ start' = start
    /\ iters' = 0 /\ NoFmt

CheckBit ==
    \E index \in Indices :
        Call("check_bit", index, {}, check_bit(bb, index)) /\ iters' = 0 /\ NoPop /\ NoFmt

SetBit ==
    \E index \in Indices :
        Call("set_bit", index, {}, set_bit(bb, index)) /\ iters' = 0 /\ NoPop /\ NoFmt

UnsetBit ==
    \E index \in Indices :
        Call("unset_bit", index, {}, unset_bit(bb, index)) /\ iters' = 0 /\ NoPop /\ NoFmt

\* from has no self: it makes a BitBoard, which replaces the one held
From ==
    \E value \in RawValues :
        /\ Call("from", 0, {}, from(value)) /\ iters' = 0 /\ NoPop /\ NoFmt

Into ==
    Call("into", 0, {}, into(bb)) /\ iters' = 0 /\ NoPop /\ NoFmt

BitAnd ==
    \E other \in RawValues \cup {bb} :
        Call("bitand", 0, other, bitand(bb, other)) /\ iters' = 0 /\ NoPop /\ NoFmt

Fmt ==
    \E fails \in WriterFailures :
        LET r == fmt(bb, fails)
        IN  /\ Call("fmt", 0, {}, r)
            /\ out' = r.buf /\ wfailed' = r.failed
            /\ iters' = 0 /\ NoPop

Next ==
    \/ CountBits
    \/ PopBit
    \/ CheckBit
    \/ SetBit
    \/ UnsetBit
    \/ From
    \/ Into
    \/ BitAnd
    \/ Fmt

Spec == Init /\ [][Next]_vars

--------------------------------------------------------------------------
(* Draining: a caller that only counts and pops, on boards up to the full one *)

InitDrain == New(RawValues \cup {AllOnes})

NextDrain ==
    \/ CountBits
    \/ PopBit

SpecDrain == InitDrain /\ [][NextDrain]_vars

--------------------------------------------------------------------------
(* Values of the test suite, and notions the properties are stated with *)

WhitePawns == U64(<<\h00, \h00, \h00, \h00, \h00, \h00, \hFF, \h00>>)
PopInput == U64(<<\h0C, \h0F, \h00, \hD0, \h00, \h00, \h01, \h00>>)
PopOutput == U64(<<\h0C, \h0F, \h00, \hD0, \h00, \h00, \h00, \h00>>)
Bit8 == U64(<<\h00, \h00, \h00, \h00, \h00, \h00, \h01, \h00>>)

\* square i is a member of the set v
Member(v, i) == i \in v
\* the lowest member of a non-empty set
Lowest(v) == CHOOSE i \in v : \A j \in v : i <= j
\* the number of members
PopCount(v) == Cardinality(v)
\* check_bit says the square is a member
Checked(v, i) == LET c == check_bit(v, i) IN c.ret.tag = "Ok" /\ c.ret.val = TRUE

ZeroRow == <<"0", "0", "0", "0", "0", "0", "0", "0", "\n">>
OneRow == <<"1", "1", "1", "1", "1", "1", "1", "1", "\n">>
WhitePawnsText == ZeroRow \o OneRow \o ZeroRow \o ZeroRow \o ZeroRow \o ZeroRow \o ZeroRow \o ZeroRow

\* the invalid-index error of each method that takes an index
InvalidIndexError(name) ==
    CASE name = "check_bit" -> "BitBoardCheckBitInvalidIndex"
      [] name = "set_bit" -> "BitBoardSetBitInvalidIndex"
      [] name = "unset_bit" -> "BitBoardUnsetBitInvalidIndex"

\* the tags a call of the method can return
Outcomes(name) ==
    CASE name = "new" -> {"BitBoard"}
      [] name = "count_bits" -> {"u8"}
      [] name = "pop_bit" -> {"Some", "None"}
      [] name = "check_bit" -> {"Ok", "BitBoardCheckBitInvalidIndex"}
      [] name = "set_bit" -> {"Ok", "BitBoardSetBitInvalidIndex"}
      [] name = "unset_bit" -> {"Ok", "BitBoardUnsetBitInvalidIndex", "BitBoardUnsetNonSetBit"}
      [] name = "from" -> {"BitBoard"}
      [] name = "into" -> {"u64"}
      [] name = "bitand" -> {"BitBoard"}
      [] name = "fmt" -> {"Ok", "fmt::Error"}

--------------------------------------------------------------------------
(* Properties *)

\* C1: pop_bit on a non-empty set returns the index of its lowest set bit and
\* clears exactly that bit; on the empty set it returns None and changes
\* nothing.  0x0C0F00D000000100 pops 8 and becomes 0x0C0F00D000000000.
PopBitContract ==
    op = "pop_bit" =>
        /\ IF pre # {}
           THEN /\ ret = Some(Lowest(pre))
                /\ ~Member(bb, Lowest(pre))
                /\ \A j \in Squares \ {Lowest(pre)} : Member(bb, j) <=> Member(pre, j)
           ELSE ret = None /\ bb = pre
        /\ pre = PopInput => ret = Some(8) /\ bb = PopOutput

PopBitWitness ==
    op = "pop_bit" /\ pre = PopInput /\ ret = Some(8) /\ bb = PopOutput

\* C2: for an index in 0..63, unset_bit of a clear bit fails with
\* UnsetNonSetBit (not the invalid-index error) and changes nothing; unset_bit
\* of a set bit succeeds and clears that bit alone.
UnsetBitContract ==
    (op = "unset_bit" /\ arg \in Squares) =>
        IF ~Member(pre, arg)
        THEN /\ ret.tag = "BitBoardUnsetNonSetBit" /\ ret.val = arg
             /\ ret.tag # "BitBoardUnsetBitInvalidIndex"
             /\ bb = pre
        ELSE /\ ret.tag = "Ok" /\ ret.val = bb
             /\ ~Member(bb, arg)
             /\ \A j \in Squares \ {arg} : Member(bb, j) <=> Member(pre, j)

UnsetBitWitness ==
    /\ op = "unset_bit" /\ arg = 8 /\ pre # {} /\ ~Member(pre, 8)
    /\ ret.tag = "BitBoardUnsetNonSetBit" /\ bb = pre

\* C3: for an index above 63, check_bit, set_bit and unset_bit each return
\* their invalid-index error carrying the index and leave the set unchanged;
\* unset_bit reports the invalid index, never UnsetNonSetBit.
InvalidIndexContract ==
    (op \in {"check_bit", "set_bit", "unset_bit"} /\ arg > 63) =>
        /\ ret.tag = InvalidIndexError(op) /\ ret.val = arg
        /\ ret.tag # "BitBoardUnsetNonSetBit"
        /\ bb = pre

InvalidIndexWitness ==
    /\ op = "unset_bit" /\ arg = 64 /\ pre # {}
    /\ ret.tag = "BitBoardUnsetBitInvalidIndex" /\ ret.val = 64 /\ bb = pre

\* C4: for an index in 0..63, set_bit succeeds, check_bit of that index is then
\* true and check_bit of every other index is what it was; from the empty set
\* the index is the only member; a second set_bit of the index changes nothing.
SetBitContract ==
    (op = "set_bit" /\ arg \in Squares) =>
        /\ ret.tag = "Ok" /\ ret.val = bb
        /\ Checked(bb, arg)
        /\ \A j \in Squares \ {arg} : Checked(bb, j) <=> Checked(pre, j)
        /\ pre = {} => {j \in Squares : Checked(bb, j)} = {arg}
        /\ set_bit(bb, arg).ret.tag = "Ok" /\ set_bit(bb, arg).self = bb
        /\ Member(pre, arg) => bb = pre

SetBitWitness ==
    op = "set_bit" /\ arg = 8 /\ pre = {} /\ ret.tag = "Ok" /\ bb = Bit8

\* C5: count_bits returns the number of set bits (0 for the empty set, 8 for
\* 0xFF00, 64 for all ones), leaves the set unchanged, and its loop makes
\* exactly that many iterations.
CountBitsContract ==
    op = "count_bits" =>
        /\ ret = Plain("u8", PopCount(pre))
        /\ iters = PopCount(pre)
        /\ bb = pre
        /\ pre = {} => ret.val = 0
        /\ pre = WhitePawns => ret.val = 8
        /\ pre = AllOnes => ret.val = 64

CountBitsWitness ==
    op = "count_bits" /\ pre = AllOnes /\ ret.val = 64 /\ iters = 64 /\ bb = AllOnes

\* C6: written to a destination that takes every write, the text is 8 rows of
\* 8 characters '0' or '1', each row followed by '\n'; the character of row r
\* and column c is '1' exactly when check_bit of the index of (file c, rank r)
\* is true; 0xFF00 renders with its second row all ones.
FmtContract ==
    (op = "fmt" /\ wfailed = {}) =>
        /\ ret = Ok(<<>>)
        /\ bb = pre
        /\ Len(out) = 8 * 9
        /\ \A r \in 0..7 :
              /\ out[9 * r + 9] = "\n"
              /\ \A c \in 0..7 :
                    out[9 * r + c + 1] =
                        IF Checked(bb, from_file_and_rank(FileIter[c + 1], RankIter[r + 1]))
                        THEN "1" ELSE "0"
        /\ bb = WhitePawns => out = WhitePawnsText

FmtWitness ==
    op = "fmt" /\ wfailed = {} /\ pre = WhitePawns /\ out = WhitePawnsText

\* C7: fmt fails exactly when a write to the destination fails: a failed write
\* of a character or of a row terminator is returned, not ignored.
FmtPropagatesWriteFailure ==
    op = "fmt" => (ret.tag = "fmt::Error" <=> wfailed # {})

\* C8: bitand is total, commutative and idempotent, its result holds exactly
\* the squares that are members of both operands, and self is not modified.
BitAndContract ==
    op = "bitand" =>
        /\ ret.tag = "BitBoard"
        /\ ret.val = bitand(rhs, pre).ret.val
        /\ bitand(pre, pre).ret.val = pre
        /\ rhs = pre => ret.val = pre
        /\ \A i \in Squares : Member(ret.val, i) <=> (Member(pre, i) /\ Member(rhs, i))
        /\ bb = pre

BitAndWitness ==
    op = "bitand" /\ pre = WhitePawns /\ rhs = PopInput /\ ret.val = Bit8 /\ bb = WhitePawns

\* C9: from a set v with n = count_bits(), the consecutive pop_bit calls that
\* succeed are exactly n, they return the members of v in strictly increasing
\* order, each once, each lowers count_bits() by 1, and once they are made
\* the set is empty and pop_bit returns None.
DrainContract ==
    LET n == count_bits(start).ret.val
        popped == {drained[k] : k \in 1..Len(drained)}
    IN  /\ Len(drained) <= n
        /\ \A k \in 1..(Len(drained) - 1) : drained[k] < drained[k + 1]
        /\ popped = {i \in Squares : Member(start, i) /\ ~Member(bb, i)}
        /\ \A i \in Squares : Member(bb, i) => Member(start, i)
        /\ count_bits(bb).ret.val = n - Len(drained)
        /\ op = "pop_bit" =>
              /\ ret.tag \in {"Some", "None"}
              /\ ret.tag = "Some" =>
                    /\ drained[Len(drained)] = ret.val
                    /\ count_bits(bb).ret.val = count_bits(pre).ret.val - 1
              /\ ret.tag = "None" <=> Len(drained) = n /\ pre = {}
              /\ ret.tag = "None" => bb = {} /\ popped = start

DrainWitness ==
    /\ op = "pop_bit" /\ ret.tag = "None" /\ start = AllOnes
    /\ Len(drained) = 64 /\ drained[1] = 0 /\ drained[64] = 63 /\ bb = {}

\* C10: no call overflows: no one-bit mask is shifted by 64 or more, v - 1 is
\* never computed for v = 0, the u8 counter never passes 64, and every call
\* returns a value or one of its tagged errors.
NoArithmeticAbort ==
    /\ trap = {}
    /\ ret.tag # "Panic"
    /\ ret.tag \in Outcomes(op)
    /\ op = "count_bits" => ret.val <= 64
    /\ LET full == count_bits(AllOnes) IN full.trap = {} /\ full.ret.val <= 64

NoArithmeticAbortWitness ==
    /\ op = "check_bit" /\ arg = 64 /\ trap = {}
    /\ ret.tag = "BitBoardCheckBitInvalidIndex" /\ bb = pre

====
